---- MODULE Spec2Model ----
(***************************************************************************)
(* A model of scan_mangled_genes.py: the corruption patterns (mangled_re,  *)
(* re_all), the cell classifier has_mangled, the column selection          *)
(* select_gene_cols, the table scan check_df and the file loop             *)
(* check_all_files.                                                        *)
(*                                                                         *)
(* A string is a sequence of one-character strings, so that str.upper,     *)
(* str.len and the regular expressions are computed character by           *)
(* character.  A cell is a record [t, s]: t is the Python type of the      *)
(* value held by the frame ("Text" str, "Number" int/float, "Date"         *)
(* datetime/Timestamp, "Empty" NaN) and s is str(value).                   *)
(***************************************************************************)
EXTENDS Integers, Sequences, FiniteSets, TLC

VARIABLES genes, df, df0, runs, probe, cls, sel, fns, fi, stdout, stderr, halted

vars == <<genes, df, df0, runs, probe, cls, sel, fns, fi, stdout, stderr, halted>>

----------------------------------------------------------------------------
(* Characters and strings *)

Range(seq) == {seq[k] : k \in DOMAIN seq}

LowerLetters == <<"a","b","c","d","e","f","g","h","i","j","k","l","m",
                  "n","o","p","q","r","s","t","u","v","w","x","y","z">>

UpperLetters == <<"A","B","C","D","E","F","G","H","I","J","K","L","M",
                  "N","O","P","Q","R","S","T","U","V","W","X","Y","Z">>

\* the uppercase of each lowercase letter
UpperOf ==
    [c \in Range(LowerLetters) |->
        UpperLetters[CHOOSE k \in DOMAIN LowerLetters : LowerLetters[k] = c]]

\* str.upper on one character
UpperChar(c) == IF c \in DOMAIN UpperOf THEN UpperOf[c] ELSE c

\* str.upper
Upper(s) == [k \in 1..Len(s) |-> UpperChar(s[k])]

\* the character of s at position i (1-based), "" outside the string
At(s, i) == IF i >= 1 /\ i <= Len(s) THEN s[i] ELSE ""

Digits == {"0","1","2","3","4","5","6","7","8","9"}

\* n consecutive characters of class cs starting at position i
ClassAt(s, i, n, cs) == \A k \in 0..(n - 1) : At(s, i + k) \in cs

\* the literal lit (a string) at position i
LitAt(s, i, lit) == \A k \in 1..Len(lit) : At(s, i + k - 1) = lit[k]

\* $ : the end of the string, or just before a newline that ends it
AtEnd(s, i) == i = Len(s) + 1 \/ (i = Len(s) /\ s[i] = "\n")

----------------------------------------------------------------------------
(* mangled_re: the five alternatives, each tried at a position i *)

\* '[0-9]{1,2}\/[0-9]{1,2}\/[0-9]{1,4}'
re_slash_date(s, i) ==
    \E a \in 1..2 :
        /\ ClassAt(s, i, a, Digits)
        /\ At(s, i + a) = "/"
        /\ \E b \in 1..2 :
              /\ ClassAt(s, i + a + 1, b, Digits)
              /\ At(s, i + a + 1 + b) = "/"
              /\ \E c \in 1..4 : ClassAt(s, i + a + b + 2, c, Digits)

\* '[0,1]{1,2}-[0-9]{1,2}-\d{2}(?:\d{2})?'  (the class holds "0", "," and "1")
re_mm_dd_yy(s, i) ==
    \E a \in 1..2 :
        /\ ClassAt(s, i, a, {"0", ",", "1"})
        /\ At(s, i + a) = "-"
        /\ \E b \in 1..2 :
              /\ ClassAt(s, i + a + 1, b, Digits)
              /\ At(s, i + a + 1 + b) = "-"
              /\ \E y \in {2, 4} : ClassAt(s, i + a + b + 2, y, Digits)

\* '[0-9]{1,2}-[0-9]{1,2}-\d{2}(?:\d{2})?'
re_dash_date(s, i) ==
    \E a \in 1..2 :
        /\ ClassAt(s, i, a, Digits)
        /\ At(s, i + a) = "-"
        /\ \E b \in 1..2 :
              /\ ClassAt(s, i + a + 1, b, Digits)
              /\ At(s, i + a + 1 + b) = "-"
              /\ \E y \in {2, 4} : ClassAt(s, i + a + b + 2, y, Digits)

MonthsLower == { <<"j","a","n">>, <<"f","e","b">>, <<"m","a","r">>,
                 <<"a","p","r">>, <<"m","a","y">>, <<"j","u","n">>,
                 <<"j","u","l">>, <<"a","u","g">>, <<"s","e","p">>,
                 <<"o","c","t">>, <<"n","o","v">>, <<"d","e","c">> }

\* JAN|...|DEC|[Jj]an|...|[Dd]ec
Months ==
    {Upper(m) : m \in MonthsLower}
        \cup MonthsLower
        \cup {<<UpperChar(m[1]), m[2], m[3]>> : m \in MonthsLower}

\* '[0-9]{1,2}-(?:JAN|...|[Dd]ec)$'
re_day_month(s, i) ==
    \E a \in 1..2 :
        /\ ClassAt(s, i, a, Digits)
        /\ At(s, i + a) = "-"
        /\ \E m \in Months : LitAt(s, i + a + 1, m)
        /\ AtEnd(s, i + a + 4)

\* '[0-9]\.[0-9]{2}E\+[0-9]{2}'
re_sci(s, i) ==
    /\ ClassAt(s, i, 1, Digits)
    /\ At(s, i + 1) = "."
    /\ ClassAt(s, i + 2, 2, Digits)
    /\ At(s, i + 4) = "E"
    /\ At(s, i + 5) = "+"
    /\ ClassAt(s, i + 6, 2, Digits)

\* mangled_re without the scientific notation
mangled_re_no_sci(s, i) ==
    \/ re_slash_date(s, i)
    \/ re_mm_dd_yy(s, i)
    \/ re_dash_date(s, i)
    \/ re_day_month(s, i)

\* the alternation of the five, tried at position i
mangled_re(s, i) ==
    \/ re_slash_date(s, i)
    \/ re_mm_dd_yy(s, i)
    \/ re_dash_date(s, i)
    \/ re_day_month(s, i)
    \/ re_sci(s, i)

\* re_all as str.contains uses it: re.search, a match starting anywhere
re_all(s) == \E i \in 1..Len(s) : mangled_re(s, i)

----------------------------------------------------------------------------
(* Cells *)

Text(s)   == [t |-> "Text",   s |-> s]
Number(s) == [t |-> "Number", s |-> s]
Date(s)   == [t |-> "Date",   s |-> s]

\* NaN; str(NaN) is "nan"
Empty == [t |-> "Empty", s |-> <<"n","a","n">>]

\* the value "" that mask(..., "") and fillna('') write
Blank == Text(<<>>)

\* pd.isnull
isnull(x) == x.t = "Empty"

\* default of has_mangled's maxcell
MaxCell == 20

\* has_mangled_cell with >= for > in the length filter
has_mangled_cell_ge(x, maxcell) ==
    LET detect_dt == x.t = "Date"
        str       == x.s
        masked    == IF Len(str) >= maxcell THEN <<>> ELSE str
        detect_re == re_all(masked)
    IN  detect_re \/ detect_dt

\* has_mangled_cell without the length filter
has_mangled_cell_nolen(x, maxcell) ==
    LET detect_dt == x.t = "Date"
        detect_re == re_all(x.s)
    IN  detect_re \/ detect_dt

\* has_mangled on one value of the series
has_mangled_cell(x, maxcell) ==
    LET detect_dt == x.t = "Date"
        str       == x.s
        masked    == IF Len(str) > maxcell THEN <<>> ELSE str
        detect_re == re_all(masked)
    IN  detect_re \/ detect_dt

\* has_mangled returning detect_dt alone
has_mangled_dt_only(ser, maxcell) ==
    [k \in DOMAIN ser |-> ser[k].t = "Date"]

\* has_mangled: ser is a series (a function from labels to values), the
\* result the boolean series over the same labels
has_mangled(ser, maxcell) ==
    [k \in DOMAIN ser |-> has_mangled_cell(ser[k], maxcell)]

\* count_names: the fraction of the series found in genes, as <<num, den>>
\* (defined in the source, called nowhere)
count_names(ser, genes_) ==
    IF Cardinality(DOMAIN ser) = 0
    THEN <<0, 1>>
    ELSE <<Cardinality({k \in DOMAIN ser : ser[k] \in genes_}),
           Cardinality(DOMAIN ser)>>

----------------------------------------------------------------------------
(* Frames: [index, columns, dtypes, val, own].  index and columns are the  *)
(* label sequences, val maps <<row label, column label>> to a cell, dtypes *)
(* gives each column's dtype, and own says that the frame holds data of    *)
(* its own (FALSE: it is the caller's table or may share its data, so that *)
(* an inplace write reaches the caller's table).                           *)

size(f) == Len(f.index) * Len(f.columns)

\* the series of column c, of row r
Column(f, c) == [r \in Range(f.index) |-> f.val[r, c]]
Row(f, r)    == [c \in Range(f.columns) |-> f.val[r, c]]

\* the dtype pandas gives a column holding these cells
InferDtype(cells) ==
    IF \E x \in cells : x.t = "Text" THEN "object"
    ELSE IF (\E x \in cells : x.t = "Number") /\ (\E x \in cells : x.t = "Date")
         THEN "object"
    ELSE IF \E x \in cells : x.t = "Date" THEN "datetime64"
    ELSE "float64"

\* df.T: one dtype for the whole transposed frame, the common one if the
\* columns agree and object if they do not
T(f) ==
    LET ds     == {f.dtypes[c] : c \in Range(f.columns)}
        common == IF Cardinality(ds) = 1 THEN CHOOSE d \in ds : TRUE ELSE "object"
    IN  [index   |-> f.columns,
         columns |-> f.index,
         dtypes  |-> [r \in Range(f.index) |-> common],
         val     |-> [p \in Range(f.columns) \X Range(f.index) |-> f.val[p[2], p[1]]],
         own     |-> f.own]

\* the frame restricted to the columns cs (a sequence of labels)
TakeColumns(f, cs) ==
    [index   |-> f.index,
     columns |-> cs,
     dtypes  |-> [c \in Range(cs) |-> f.dtypes[c]],
     val     |-> [p \in Range(f.index) \X Range(cs) |-> f.val[p[1], p[2]]],
     own     |-> f.own]

\* df.select_dtypes('object')
select_dtypes_object(f) ==
    TakeColumns(f, SelectSeq(f.columns, LAMBDA c : f.dtypes[c] = "object"))

\* .copy() left out
copy_shared(f) == f

\* .copy()
copy(f) == [f EXCEPT !.own = TRUE]

\* default of select_gene_cols' thresh, 0.2, as <<numerator, denominator>>
Thresh == <<1, 5>>

\* select_gene_cols never masking
select_gene_cols_unmasked(f, genes_, mask, thresh) ==
    LET obj        == select_dtypes_object(f)
        df_str     == [p \in DOMAIN obj.val |-> Upper(obj.val[p].s)]
        df_is_gene == [p \in DOMAIN obj.val |-> df_str[p] \in genes_]
        colsum(c)  == Cardinality({r \in Range(obj.index) : df_is_gene[r, c]})
        gene_cols  == SelectSeq(obj.columns,
                                LAMBDA c : colsum(c) * thresh[2] > thresh[1])
    IN  copy(TakeColumns(obj, gene_cols))

\* select_gene_cols: thresh is <<numerator, denominator>>
select_gene_cols(f, genes_, mask, thresh) ==
    LET obj        == select_dtypes_object(f)
        df_str     == [p \in DOMAIN obj.val |-> Upper(obj.val[p].s)]
        df_is_gene == [p \in DOMAIN obj.val |-> df_str[p] \in genes_]
        colsum(c)  == Cardinality({r \in Range(obj.index) : df_is_gene[r, c]})
        gene_cols  == SelectSeq(obj.columns,
                                LAMBDA c : colsum(c) * thresh[2] > thresh[1])
        sub        == copy(TakeColumns(obj, gene_cols))
    IN  IF mask
        THEN [sub EXCEPT !.val = [p \in DOMAIN sub.val |->
                                    IF df_is_gene[p] THEN Blank ELSE sub.val[p]]]
        ELSE sub

\* is_longer
is_longer(f) == Len(f.index) > Len(f.columns)

\* df_sub.fillna('', inplace=True)
fillna_blank(f) ==
    [f EXCEPT !.val = [p \in DOMAIN f.val |->
                          IF isnull(f.val[p]) THEN Blank ELSE f.val[p]]]

\* df_sub.apply(has_mangled, axis): the boolean grid over df_sub's cells
apply_has_mangled(f, axis) ==
    IF axis = 0
    THEN LET res == [c \in Range(f.columns) |-> has_mangled(Column(f, c), MaxCell)]
         IN  [p \in DOMAIN f.val |-> res[p[2]][p[1]]]
    ELSE LET res == [r \in Range(f.index) |-> has_mangled(Row(f, r), MaxCell)]
         IN  [p \in DOMAIN f.val |-> res[p[1]][p[2]]]

\* the cells of f in the order of f.values: row by row
Positions(f) ==
    [k \in 1..size(f) |->
        <<f.index[((k - 1) \div Len(f.columns)) + 1],
          f.columns[((k - 1) % Len(f.columns)) + 1]>>]

\* the frame the caller holds after inplace writes to a frame g taken from
\* it: untouched when g holds its own data
WriteThrough(f, g) ==
    IF g.own
    THEN f
    ELSE [f EXCEPT !.val = [p \in DOMAIN f.val |->
                              IF p \in DOMAIN g.val THEN g.val[p] ELSE f.val[p]]]

\* check_df scanning df where it should scan df_sub
scan_grid_whole(f, genes_) ==
    [df_sub    |-> copy(fillna_blank(f)),
     df_detect |-> apply_has_mangled(fillna_blank(f), IF is_longer(f) THEN 1 ELSE 0)]

\* check_df without the transposed retry
scan_grid_no_retry(f, genes_) ==
    LET filled == fillna_blank(select_gene_cols(f, genes_, TRUE, Thresh))
    IN  [df_sub    |-> filled,
         df_detect |-> apply_has_mangled(filled, IF is_longer(f) THEN 1 ELSE 0)]

\* check_df up to df_detect: the sub-table scanned and the boolean grid
scan_grid(f, genes_) ==
    LET first  == select_gene_cols(f, genes_, TRUE, Thresh)
        df_sub == IF size(first) = 0
                  THEN T(select_gene_cols(T(f), genes_, TRUE, Thresh))
                  ELSE first
        filled == fillna_blank(df_sub)
    IN  [df_sub    |-> filled,
         df_detect |-> apply_has_mangled(filled, IF is_longer(f) THEN 1 ELSE 0)]

\* df[df_detect] at position p of df: a cell outside df_detect counts as False
hit(df_detect, p) == p \in DOMAIN df_detect /\ df_detect[p]

\* check_df: [count, found, df], df being the caller's table after the call
check_df(f, genes_) ==
    LET g    == scan_grid(f, genes_)
        kept == SelectSeq(Positions(f),
                          LAMBDA p : hit(g.df_detect, p) /\ ~isnull(f.val[p]))
    IN  [count |-> Cardinality({p \in DOMAIN g.df_detect : g.df_detect[p]}),
         found |-> [k \in 1..Len(kept) |-> f.val[kept[k]]],
         df    |-> WriteThrough(f, g.df_sub)]

----------------------------------------------------------------------------
(* Inputs *)

S_BRCA1 == <<"B","R","C","A","1">>
S_TP53  == <<"T","P","5","3">>
S_7157  == <<"7","1","5","7">>
S_1Mar  == <<"1","-","M","a","r">>
S_1MAR  == <<"1","-","M","A","R">>
S_x     == <<"x">>
S_y     == <<"y">>
S_z     == <<"z">>

\* str(Timestamp('2021-03-04')), and one with microseconds
S_date   == <<"2","0","2","1","-","0","3","-","0","4"," ",
              "0","0",":","0","0",":","0","0">>
S_date_us == S_date \o <<".","0","0","0","0","0","1">>

\* reference sets as check_all_files builds them: uppercased, unique
RefSets == { {S_BRCA1, S_1MAR}, {S_TP53, S_7157, S_date} }

\* the reference set of the end-to-end scenario
EndToEndGenes == {S_BRCA1, S_TP53}

\* the largest number of cells of a table
MaxCells == 4

\* the number of scans of one table
MaxRuns == 2

ColNames == <<"A","B","C","D","E","F","G","H","I","J">>

Shapes == {sh \in (1..MaxCells) \X (1..MaxCells) : sh[1] * sh[2] <= MaxCells}

\* the caller's table with r rows and c columns holding the cells v, as a
\* reader builds it: a column of numbers with an empty cell is float64, and
\* str() of its numbers ends in ".0"
MkFrame(r, c, v) ==
    LET cols   == SubSeq(ColNames, 1, c)
        dt(n)  == InferDtype({v[k, n] : k \in 1..r})
        gap(n) == \E k \in 1..r : v[k, n] = Empty
    IN  [index   |-> [k \in 1..r |-> k],
         columns |-> cols,
         dtypes  |-> [n \in Range(cols) |-> dt(n)],
         val     |-> [p \in DOMAIN v |->
                        IF v[p].t = "Number" /\ dt(p[2]) = "float64" /\ gap(p[2])
                        THEN Number(v[p].s \o <<".", "0">>)
                        ELSE v[p]],
         own     |-> FALSE]

\* the cell grids of shape sh drawn from cells
Grids(sh, cells) ==
    [(1..sh[1]) \X Range(SubSeq(ColNames, 1, sh[2])) -> cells]

ScanCells == { Text(S_BRCA1), Text(S_1Mar), Number(S_7157), Date(S_date), Empty }

\* the table of the end-to-end scenario
EndToEnd ==
    MkFrame(3, 2, [p \in (1..3) \X {"A", "B"} |->
        IF p[2] = "A"
        THEN Text(<<S_BRCA1, S_TP53, S_1Mar>>[p[1]])
        ELSE Text(<<S_x, S_y, S_z>>[p[1]])])

NoProbe == [pos |-> <<0, "">>, cell |-> Empty, maxcell |-> MaxCell]

NoSel == [done |-> FALSE, thresh |-> Thresh, cols |-> {}]

----------------------------------------------------------------------------
(* Scanning one in-memory table, MaxRuns times *)

Init ==
    /\ \/ /\ genes \in RefSets
          /\ \E sh \in Shapes :
               \E v \in Grids(sh, ScanCells) : df = MkFrame(sh[1], sh[2], v)
       \/ /\ genes = EndToEndGenes
          /\ df = EndToEnd
    /\ df0 = df
    /\ runs = <<>>
    /\ probe = NoProbe
    /\ cls = "none"
    /\ sel = NoSel
    /\ fns = <<>>
    /\ fi = 1
    /\ stdout = <<>>
    /\ stderr = <<>>
    /\ halted = FALSE

\* count, vals = check_df(df, genes)
Scan ==
    /\ Len(runs) < MaxRuns
    /\ LET res == check_df(df, genes)
       IN  /\ runs' = Append(runs, [count |-> res.count, found |-> res.found])
           /\ df' = res.df
    /\ UNCHANGED <<genes, df0, probe, cls, sel, fns, fi, stdout, stderr, halted>>

Next == Scan

Spec == Init /\ [][Next]_vars

----------------------------------------------------------------------------
(* select_gene_cols on one table, at a threshold *)

\* 0.2 and 0.9
Thresholds == { <<1, 5>>, <<9, 10>> }

\* select_gene_cols(df, genes, thresh=t).columns
Select(t) ==
    /\ ~sel.done
    /\ sel' = [done   |-> TRUE,
               thresh |-> t,
               cols   |-> Range(select_gene_cols(df, genes, TRUE, t).columns)]
    /\ UNCHANGED <<genes, df, df0, runs, probe, cls, fns, fi, stdout, stderr, halted>>

NextSelect == \E t \in Thresholds : Select(t)

SpecSelect == Init /\ [][NextSelect]_vars

----------------------------------------------------------------------------
(* has_mangled on one cell *)

S_slash == <<"0","3","/","0","4","/","2","0","2","1">>
S_dash  == <<"1","2","-","2","5","-","1","9">>
S_sci   == <<"1",".","2","3","E","+","1","0">>

\* strings holding one of the patterns, and near misses
Cores == { S_slash, S_dash, S_1MAR, S_sci, S_1Mar,
           <<"1","2","-","D","e","c">>,
           <<"1","-","m","A","R">>,
           <<",","-","1","-","2","0">>,
           <<"1",".","2","3","e","+","1","0">>,
           <<"M","A","R","1">> }

Prefixes == { <<>>, <<"x"," ">> }

Pad10 == <<" ","x","x","x","x","x","x","x","x","x">>

Suffixes == { <<>>, <<" ","x">>, <<"\n">>, Pad10, Pad10 \o <<"x">> }

ProbeCells ==
    { Text(pre \o core \o suf) : pre \in Prefixes, core \in Cores, suf \in Suffixes }
        \cup { Date(S_date), Date(S_date_us), Number(S_7157),
               Number(<<"1","2","3","0","0","0","0","0","0","0","0",".","0">>),
               Empty }

\* has_mangled called with its default maxcell and with another
MaxCellChoices == { MaxCell, MaxCell \div 2 }

InitCell ==
    /\ genes = EndToEndGenes
    /\ df = EndToEnd
    /\ df0 = df
    /\ runs = <<>>
    /\ probe \in [pos : {<<0, "">>}, cell : ProbeCells, maxcell : MaxCellChoices]
    /\ cls = "none"
    /\ sel = NoSel
    /\ fns = <<>>
    /\ fi = 1
    /\ stdout = <<>>
    /\ stderr = <<>>
    /\ halted = FALSE

\* has_mangled(pd.Series([cell]), maxcell)
Classify ==
    /\ cls = "none"
    /\ cls' = IF has_mangled([k \in {0} |-> probe.cell], probe.maxcell)[0]
              THEN "mangled"
              ELSE "clean"
    /\ UNCHANGED <<genes, df, df0, runs, probe, sel, fns, fi, stdout, stderr, halted>>

NextCell == Classify

SpecCell == InitCell /\ [][NextCell]_vars

----------------------------------------------------------------------------
(* Scanning a table in which one cell was placed *)

BaseCells == { Text(S_BRCA1), Text(S_x) }

PlaceCells ==
    { Text(S_slash), Text(S_dash), Text(S_1MAR), Text(S_sci),
      Text(S_1Mar \o <<" ","x">>),
      Text(<<"x"," ">> \o S_slash \o Pad10),
      Text(S_slash \o Pad10),
      Text(S_slash \o Pad10 \o <<"x">>),
      Date(S_date), Date(S_date_us),
      Number(<<"1","2","3","0","0","0","0","0","0","0","0",".","0">>),
      Empty }

InitPlace ==
    /\ genes \in RefSets
    /\ \E sh \in Shapes :
         \E base \in Grids(sh, BaseCells) :
           \E p \in DOMAIN base :
             \E x \in PlaceCells :
               /\ df = MkFrame(sh[1], sh[2], [base EXCEPT ![p] = x])
               /\ probe = [pos |-> p, cell |-> x, maxcell |-> MaxCell]
    /\ df0 = df
    /\ runs = <<>>
    /\ cls = "none"
    /\ sel = NoSel
    /\ fns = <<>>
    /\ fi = 1
    /\ stdout = <<>>
    /\ stderr = <<>>
    /\ halted = FALSE

SpecPlace == InitPlace /\ [][Next]_vars

----------------------------------------------------------------------------
(* check_all_files over a list of files *)

\* a file with a header and no rows
ZeroFrame == MkFrame(0, 1, [p \in {} |-> Empty])

\* one flagged cell under {BRCA1, TP53}
OneHit ==
    MkFrame(2, 1, [p \in (1..2) \X {"A"} |->
                      IF p[1] = 1 THEN Text(S_BRCA1) ELSE Text(S_1Mar)])

\* nothing to flag
NoHit == MkFrame(1, 1, [p \in {1} \X {"A"} |-> Text(S_x)])

Sheet(n, f) == [name |-> n, df |-> f]

\* what pd.read_excel(fn, sheet_name=None) returns for the workbooks read
Workbooks ==
    { <<>>,
      <<Sheet("S1", OneHit)>>,
      <<Sheet("S1", ZeroFrame)>>,
      <<Sheet("S1", NoHit), Sheet("S2", OneHit)>>,
      <<Sheet("S1", OneHit), Sheet("S2", ZeroFrame)>>,
      <<Sheet("S2", ZeroFrame), Sheet("S1", NoHit)>>,
      <<Sheet("S1", ZeroFrame), Sheet("S2", OneHit), Sheet("S3", NoHit)>> }

\* a file: whether its name ends in csv, whether the reader succeeds, and
\* what the reader returns
Files ==
    [csv : {TRUE}, ok : {FALSE}, sheets : {<<>>}]
        \cup [csv : {FALSE}, ok : {FALSE}, sheets : {<<>>}]
        \cup [csv : {TRUE}, ok : {TRUE},
              sheets : {<<Sheet("csv", f)>> : f \in {ZeroFrame, OneHit, NoHit}}]
        \cup [csv : {FALSE}, ok : {TRUE}, sheets : Workbooks]

\* the largest number of files on the command line
MaxFiles == 2

FileLists == UNION { [1..n -> Files] : n \in 0..MaxFiles }

\* pd.read_csv / pd.read_excel on the file: raises when it cannot be read
pd_read(fn) == [raised |-> ~fn.ok, value |-> fn.sheets]

\* read_file keeping the sheets of size 0
read_file_unfiltered(fn) ==
    LET r == pd_read(fn)
    IN  [all_df |-> IF r.raised THEN <<>> ELSE r.value,
         err    |-> IF ~r.raised THEN <<>>
                    ELSE IF fn.csv THEN <<"Unable to parse.">>
                    ELSE <<"Unable to read file. ">>,
         raised |-> FALSE]

\* read_file: all_df, the diagnostics err printed to stderr, and whether an
\* exception leaves the function (both readers are called inside
\* try/except Exception)
read_file(fn) ==
    LET r      == pd_read(fn)
        loaded == IF r.raised THEN <<>> ELSE r.value
    IN  [all_df |-> SelectSeq(loaded, LAMBDA sh : size(sh.df) > 0),
         err    |-> IF ~r.raised THEN <<>>
                    ELSE IF fn.csv THEN <<"Unable to parse.">>
                    ELSE <<"Unable to read file. ">>,
         raised |-> FALSE]

InitFiles ==
    /\ genes = EndToEndGenes
    /\ df = EndToEnd
    /\ df0 = df
    /\ runs = <<>>
    /\ probe = NoProbe
    /\ cls = "none"
    /\ sel = NoSel
    /\ fns \in FileLists
    /\ fi = 1
    /\ stdout = <<>>
    /\ stderr = <<>>
    /\ halted = FALSE

\* one turn of the loop of check_all_files, on file fns[fi]; an exception
\* that leaves read_file ends the run
ProcessFile ==
    /\ ~halted
    /\ fi <= Len(fns)
    /\ LET rd     == read_file(fns[fi])
           all_df == rd.all_df
           banner == <<[file |-> fi, msg |-> "# "]>>
       IN  IF rd.raised
           THEN /\ halted' = TRUE
                /\ stderr' = stderr \o banner
                /\ UNCHANGED <<stdout, fi>>
           ELSE /\ halted' = FALSE
                /\ stderr' = stderr \o banner
                       \o [k \in 1..Len(rd.err) |-> [file |-> fi, msg |-> rd.err[k]]]
                /\ stdout' = stdout
                       \o [k \in 1..Len(all_df) |->
                             LET res == check_df(all_df[k].df, genes)
                             IN  [file  |-> fi,
                                  name  |-> all_df[k].name,
                                  count |-> res.count,
                                  vals  |-> res.found]]
                /\ fi' = fi + 1
    /\ UNCHANGED <<genes, df, df0, runs, probe, cls, sel, fns>>

NextFiles == ProcessFile

SpecFiles == InitFiles /\ [][NextFiles]_vars

----------------------------------------------------------------------------
(* Properties *)

\* the uppercased string form of a cell is in the reference set
IsRef(x) == Upper(x.s) \in genes

\* a fraction <<num, den>> exceeds the threshold <<num, den>>
Exceeds(fr, t) == fr[1] * t[2] > t[1] * fr[2]

\* the match fraction of column c of the table: count_names on the
\* uppercased string forms
Fraction(f, c) ==
    count_names([r \in Range(f.index) |-> Upper(f.val[r, c].s)], genes)

\* the first scan has run
Scanned == Len(runs) >= 1

\* the selections check_df makes on the table as it was given
ColSel == select_gene_cols(df0, genes, TRUE, Thresh)
RowSel == select_gene_cols(T(df0), genes, TRUE, Thresh)

\* C1: select_gene_cols selects a text column exactly when the fraction of
\* its cells whose uppercased string form is in the reference set exceeds
\* the threshold t.
C1_SelectedIffFractionExceeds ==
    sel.done =>
        \A c \in Range(df.columns) :
            df.dtypes[c] = "object" =>
                (c \in sel.cols <=> Exceeds(Fraction(df, c), sel.thresh))

\* C2: with masking, no cell whose uppercased string value is in the
\* reference set is listed in found or counted, whatever the orientation.
C2_ReferenceMatchesNeverFlagged ==
    Scanned =>
        LET g == scan_grid(df0, genes).df_detect
        IN  /\ \A k \in DOMAIN runs[1].found : ~IsRef(runs[1].found[k])
            /\ \A p \in DOMAIN df0.val : IsRef(df0.val[p]) => ~hit(g, p)
            /\ runs[1].count =
                 Cardinality({p \in DOMAIN df0.val : hit(g, p) /\ ~IsRef(df0.val[p])})

\* a Date cell that is a reference match and whose string form matches a
\* pattern sits in a row selected by the transposed retry
C2_Witness ==
    /\ Scanned
    /\ size(ColSel) = 0
    /\ size(RowSel) > 0
    /\ \E p \in DOMAIN df0.val :
         /\ IsRef(df0.val[p])
         /\ re_all(df0.val[p].s)
         /\ p[1] \in Range(RowSel.columns)
    /\ runs[1].count >= 1

\* the four examples of the pattern coverage
Examples == { Text(S_slash), Text(S_dash), Text(S_1MAR), Text(S_sci) }

\* the placed cell sits in a column whose match fraction exceeds the threshold
ProbeColumnMeets == Exceeds(Fraction(df0, probe.pos[2]), Thresh)

\* the placed cell is counted and listed
ProbeFlagged ==
    /\ hit(scan_grid(df0, genes).df_detect, probe.pos)
    /\ runs[1].count >= 1
    /\ \E k \in DOMAIN runs[1].found : runs[1].found[k] = probe.cell

day_month_token(s, i) ==
    \E a \in 1..2 :
        /\ ClassAt(s, i, a, Digits)
        /\ At(s, i + a) = "-"
        /\ \E m \in Months : LitAt(s, i + a + 1, m)

C5_LongCellsNeverFlagged ==
    (Scanned /\ probe.cell.t # "Date" /\ Len(probe.cell.s) > MaxCell)
        => /\ ~has_mangled_cell(probe.cell, MaxCell)
           /\ ~hit(scan_grid(df0, genes).df_detect, probe.pos)
           /\ \A k \in DOMAIN runs[1].found : runs[1].found[k] # probe.cell
           /\ runs[1].count = Len(runs[1].found)

\* a long string holding a slash date sits in a selected column
C5_Witness ==
    /\ Scanned
    /\ probe.cell.t = "Text"
    /\ Len(probe.cell.s) > MaxCell
    /\ re_all(probe.cell.s)
    /\ probe.pos[2] \in Range(ColSel.columns)

\* the values of the table at the positions where the scan of the
\* transposed table flags, listed row by row
FoundByTransposedScan ==
    LET gt   == scan_grid(T(df0), genes).df_detect
        kept == SelectSeq(Positions(df0),
                          LAMBDA p : hit(gt, <<p[2], p[1]>>) /\ ~isnull(df0.val[p]))
    IN  [k \in 1..Len(kept) |-> df0.val[kept[k]]]

\* C6: when no column is selected and a row is, the result is that of the
\* scan of the transposed table: the same count, and found holds the
\* table's own values at the flagged positions; rows are used only when no
\* column is selected.
C6_RowFallback ==
    Scanned =>
        LET g == scan_grid(df0, genes)
        IN  /\ (size(ColSel) = 0 /\ size(RowSel) > 0) =>
                  /\ runs[1].count = check_df(T(df0), genes).count
                  /\ runs[1].found = FoundByTransposedScan
                  /\ Range(g.df_sub.index) = Range(RowSel.columns)
            /\ size(ColSel) > 0 =>
                  /\ g.df_sub.columns = ColSel.columns
                  /\ g.df_sub.index = df0.index

\* the retry selected a row of a table of several rows and columns, and a
\* cell of that row is flagged
C6_Witness ==
    /\ Scanned
    /\ size(ColSel) = 0
    /\ size(RowSel) > 0
    /\ Len(df0.index) >= 2
    /\ Len(df0.columns) >= 2
    /\ Len(RowSel.columns) < Len(df0.index)
    /\ runs[1].count >= 1
    /\ \E k \in DOMAIN runs[1].found : runs[1].found[k].t = "Text"

\* the cells check_df scans: those of the selected columns, or of the
\* selected rows when no column is selected
SelectedCells ==
    IF size(ColSel) > 0
    THEN {p \in DOMAIN df0.val : p[2] \in Range(ColSel.columns)}
    ELSE {p \in DOMAIN df0.val : p[1] \in Range(RowSel.columns)}

\* the rank of a position in the row by row order of the table
RowMajorBefore(p, q) ==
    LET rk(seq, x) == CHOOSE k \in DOMAIN seq : seq[k] = x
    IN  \/ rk(df0.index, p[1]) < rk(df0.index, q[1])
        \/ /\ p[1] = q[1]
           /\ rk(df0.columns, p[2]) < rk(df0.columns, q[2])

\* C7: found lists the table's own values of exactly the selected cells
\* that are no reference match and that has_mangled classifies as mangled,
\* and count is its length; the end-to-end scenario gives (1, ["1-Mar"]).
C7_FoundIsFlaggedSelection ==
    Scanned =>
        LET want == {p \in SelectedCells :
                        ~IsRef(df0.val[p]) /\ has_mangled_cell(df0.val[p], MaxCell)}
            res  == runs[1]
        IN  /\ res.count = Len(res.found)
            /\ res.count = Cardinality(want)
            /\ \E ps \in [1..Len(res.found) -> want] :
                 /\ \A k \in DOMAIN res.found : res.found[k] = df0.val[ps[k]]
                 /\ \A j, k \in DOMAIN res.found : j < k => RowMajorBefore(ps[j], ps[k])
            /\ (df0 = EndToEnd /\ genes = EndToEndGenes) =>
                 res = [count |-> 1, found |-> <<Text(S_1Mar)>>]

\* the end-to-end scenario has been scanned
C7_Witness ==
    /\ Scanned
    /\ df0 = EndToEnd
    /\ genes = EndToEndGenes
    /\ runs[1].found = <<Text(S_1Mar)>>

\* C8: every scan of the same table returns the same count and the same
\* ordered found, and the table is left as it was.
C8_RepeatableAndUnchanged ==
    /\ \A j, k \in DOMAIN runs : runs[j] = runs[k]
    /\ df = df0

\* two scans of a table with a masked reference match, a filled empty cell
\* and flagged cells
C8_Witness ==
    /\ Len(runs) >= 2
    /\ runs[2].count >= 2
    /\ \E p \in SelectedCells : IsRef(df0.val[p])
    /\ \E p \in SelectedCells : isnull(df0.val[p])

\* C9: when neither a column nor a row is selected, the scan returns count
\* 0 and an empty found.
C9_NoCandidateAxis ==
    (Scanned /\ size(ColSel) = 0 /\ size(RowSel) = 0)
        => runs[1] = [count |-> 0, found |-> <<>>]

\* nothing is selected in a table of several rows and columns holding a
\* text cell that has_mangled classifies as mangled
C9_Witness ==
    /\ Scanned
    /\ size(ColSel) = 0
    /\ size(RowSel) = 0
    /\ Len(df0.index) >= 2
    /\ Len(df0.columns) >= 2
    /\ \E p \in DOMAIN df0.val :
         df0.val[p].t = "Text" /\ has_mangled_cell(df0.val[p], MaxCell)

\* the result lines of file k, the diagnostics of file k
LinesOf(k) == SelectSeq(stdout, LAMBDA ln : ln.file = k)
DiagnosticsOf(k) == SelectSeq(stderr, LAMBDA ln : ln.file = k /\ ln.msg # "# ")

\* the sheets of file k that have cells, in the loader's order
NonEmptySheets(k) == SelectSeq(fns[k].sheets, LAMBDA sh : size(sh.df) > 0)

\* C10: files are processed one at a time in the order given; a failing
\* file gives a diagnostic, no result line and does not stop the run; a
\* readable file gives one result line per sheet that has cells, in the
\* loader's order, also when the count is 0; the lines of an earlier file
\* precede those of a later one.
C10_FilesInOrder ==
    /\ fi \in 1..(Len(fns) + 1)
    /\ ~halted
    /\ \A j, k \in DOMAIN stdout : j < k => stdout[j].file <= stdout[k].file
    /\ \A k \in DOMAIN fns :
         IF k >= fi
         THEN LinesOf(k) = <<>> /\ DiagnosticsOf(k) = <<>>
         ELSE IF ~fns[k].ok
         THEN LinesOf(k) = <<>> /\ Len(DiagnosticsOf(k)) = 1
         ELSE /\ DiagnosticsOf(k) = <<>>
              /\ Len(LinesOf(k)) = Len(NonEmptySheets(k))
              /\ \A n \in DOMAIN LinesOf(k) :
                   /\ LinesOf(k)[n].name = NonEmptySheets(k)[n].name
                   /\ LinesOf(k)[n].count =
                        check_df(NonEmptySheets(k)[n].df, genes).count
                   /\ LinesOf(k)[n].vals = check_df(NonEmptySheets(k)[n].df, genes).found

\* a failing file was followed by a workbook with an empty sheet, a sheet
\* with a flagged cell and a sheet with none
C10_Witness ==
    /\ Len(fns) >= 2
    /\ fi = Len(fns) + 1
    /\ ~fns[1].ok
    /\ fns[2].ok
    /\ Len(fns[2].sheets) = 3
    /\ Len(LinesOf(2)) = 2
    /\ LinesOf(2)[2].count = 0

====
